---- MODULE Spec2Model ----
(***************************************************************************)
(* A model of scrape_reviews.py: one run of run_scraper, from argument     *)
(* validation through the browser session, the site adapter's navigation,  *)
(* the scroll_and_collect loop, the adapter's date filter and the JSON     *)
(* output.  The page is an opaque collaborator: every call on it may       *)
(* return, raise playwright's TimeoutError or raise another error.         *)
(*                                                                         *)
(* Text.  A string is a record [fmt, txt, len, day, min].  fmt = "text"    *)
(* is the first len characters of the running text named txt (so two       *)
(* texts of the same name agree on their common prefix); any other fmt is  *)
(* a date literal written in that strftime format for the day `day` and    *)
(* the minute of the day `min`.  Days are proleptic ordinals relative to   *)
(* an arbitrary day 0.                                                     *)
(***************************************************************************)
EXTENDS Integers, Sequences, FiniteSets, TLC

\* Rounds of scroll_and_collect; stands in for the default max_scrolls = 40.
MaxScrolls == 3
\* Largest number of records one in-page extraction returns.
MaxFound == 2

\* description[:50] in scrape_g2
DateProbeLen == 50
\* description[:120] in the cross-iteration dedup key
KeyDescLen == 120

----------------------------------------------------------------------------
\* Strings

Text(t, n) == [fmt |-> "text", txt |-> t, len |-> n, day |-> 0, min |-> 0]

EmptyStr == Text("", 0)

Ymd(d) == [fmt |-> "%Y-%m-%d", txt |-> "", len |-> 10, day |-> d, min |-> 0]

YmdHM(d, m) == [fmt |-> "%Y-%m-%dT%H:%M", txt |-> "", len |-> 16, day |-> d, min |-> m]

YmdHMZ(d, m) == [fmt |-> "%Y-%m-%dT%H:%MZ", txt |-> "", len |-> 17, day |-> d, min |-> m]

\* s[:n]
Take(s, n) ==
    IF s.len <= n THEN s
    ELSE IF s.fmt = "text" THEN [s EXCEPT !.len = n]
    ELSE [s EXCEPT !.fmt = "cut", !.txt = s.fmt, !.len = n]

\* Python truthiness of a string
Truthy(s) == s.len > 0

\* x or ""
OrEmpty(s) == IF Truthy(s) THEN s ELSE EmptyStr

----------------------------------------------------------------------------
\* Dates (datetime values; ok = FALSE is None)

None == [ok |-> FALSE, day |-> 0, min |-> 0, aware |-> FALSE]

DateTime(d, m, a) == [ok |-> TRUE, day |-> d, min |-> m, aware |-> a]

\* dateutil's parser on the model's strings: the three date literals parse,
\* running text (and the empty string) raises inside and yields None.
parse_date_safe(s) ==
    CASE s.fmt = "%Y-%m-%d"        -> DateTime(s.day, 0, FALSE)
      [] s.fmt = "%Y-%m-%dT%H:%M"  -> DateTime(s.day, s.min, FALSE)
      [] s.fmt = "%Y-%m-%dT%H:%MZ" -> DateTime(s.day, s.min, TRUE)
      [] OTHER                     -> None

\* a or b on Optional[datetime]
OrElse(a, b) == IF a.ok THEN a ELSE b

\* datetime <= datetime, both naive or both aware
Leq(a, b) == a.day < b.day \/ (a.day = b.day /\ a.min <= b.min)

\* start <= dt <= end raises TypeError when it compares a naive with an
\* aware datetime; the chained comparison stops at the first false link.
within_range_raises(dt, start, end) ==
    \/ start.aware # dt.aware
    \/ (Leq(start, dt) /\ dt.aware # end.aware)

within_range(dt, start, end) == Leq(start, dt) /\ Leq(dt, end)

iso(d) == Ymd(d.day)

----------------------------------------------------------------------------
\* Review records, as the in-page script returns them

Review(title, description, date) ==
    [title |-> title, description |-> description, date |-> date,
     rating |-> EmptyStr, reviewer |-> EmptyStr]

\* The records the page may show.  The first two share a title and the first
\* 120 characters of the description and differ after that; the third carries
\* its date in the description only; the fourth has a relative date; the
\* fifth has a date with a time zone.
PageRecords ==
    { Review(Text("Great CRM", 9), Text("lorem", 150), YmdHM(2, 720)),
      Review(Text("Great CRM", 9), Text("lorem", 130), YmdHM(3, 720)),
      Review(Text("Solid", 5), Ymd(1), EmptyStr),
      Review(EmptyStr, Text("ipsum", 60), Text("3 months ago", 12)),
      Review(Text("Fine", 4), Text("amet", 90), YmdHMZ(2, 720)) }

\* The lists one extraction may return (page.evaluate's result or [])
FoundLists ==
    UNION { [1..n -> PageRecords] : n \in 0..MaxFound }

----------------------------------------------------------------------------
\* scroll_and_collect: the merge of one extraction and the loop tests

\* Key without the [:120]: the whole description
KeyWholeDescription(r) == <<r.title, "|", OrEmpty(r.description)>>

\* the cross-iteration dedup key (line 149); the tuple stands for the
\* concatenation title + '|' + description[:120]
Key(r) == <<r.title, "|", Take(OrEmpty(r.description), KeyDescLen)>>

\* Merge with `collected` started afresh by the first new record of a round
RECURSIVE MergeRestart(_, _)
MergeRestart(st, found) ==
    IF found = <<>> THEN st
    ELSE LET r == Head(found)
             key == Key(r)
             nx == IF key \notin st.seen_keys
                   THEN [collected |-> IF st.new_count = 0 THEN <<r>>
                                       ELSE Append(st.collected, r),
                         seen_keys |-> st.seen_keys \cup {key},
                         new_count |-> st.new_count + 1]
                   ELSE st
         IN  MergeRestart(nx, Tail(found))

\* for r in found: ... (lines 148-153); st = [collected, seen_keys, new_count]
RECURSIVE Merge(_, _)
Merge(st, found) ==
    IF found = <<>> THEN st
    ELSE LET r == Head(found)
             key == Key(r)
             nx == IF key \notin st.seen_keys
                   THEN [collected |-> Append(st.collected, r),
                         seen_keys |-> st.seen_keys \cup {key},
                         new_count |-> st.new_count + 1]
                   ELSE st
         IN  Merge(nx, Tail(found))

\* the break test with the count compared the wrong way round
NoProgressNever(len, last, cnt) == len = last /\ cnt # 0

\* if len(collected) == last_len and new_count == 0: break
no_progress(len, last, cnt) == len = last /\ cnt = 0

\* range(max_scrolls + 1)
RangeHasNextOffByOne(k, n) == k + 1 < n + 1

\* for i in range(max_scrolls): is there an iteration after iteration k
range_has_next(k, n) == k + 1 < n

----------------------------------------------------------------------------
\* The adapters' normalisation and date filters

\* r_copy = {...} with the adapter's source tag
Copy(r, dt, src) ==
    [title |-> OrEmpty(r.title), description |-> OrEmpty(r.description),
     date |-> IF dt.ok THEN iso(dt) ELSE OrEmpty(r.date),
     rating |-> OrEmpty(r.rating), reviewer |-> OrEmpty(r.reviewer),
     source |-> src]

\* A filter's result: the list built, or raised = TRUE when a comparison
\* raised TypeError (the list is then lost with the frame).
Returned(out) == [raised |-> FALSE, out |-> out]

Raised == [raised |-> TRUE, out |-> <<>>]

\* scrape_g2, first loop: dt = parse(date) or parse(description[:50])
g2_date(r) ==
    OrElse(parse_date_safe(OrEmpty(r.date)),
           parse_date_safe(Take(r.description, DateProbeLen)))

RECURSIVE g2_normalize(_, _, _, _)
g2_normalize(all_reviews, start, end, normalized) ==
    IF all_reviews = <<>> THEN Returned(normalized)
    ELSE LET r == Head(all_reviews)
             dt == g2_date(r)
         IN  IF dt.ok /\ within_range_raises(dt, start, end) THEN Raised
             ELSE IF ~dt.ok \/ within_range(dt, start, end)
             THEN g2_normalize(Tail(all_reviews), start, end,
                               Append(normalized, Copy(r, dt, "G2")))
             ELSE g2_normalize(Tail(all_reviews), start, end, normalized)

\* scrape_g2, second loop ("final filter")
RECURSIVE g2_final_filter(_, _, _, _)
g2_final_filter(normalized, start, end, filtered) ==
    IF normalized = <<>> THEN Returned(filtered)
    ELSE LET r == Head(normalized)
             p == parse_date_safe(r.date)
             rest == Tail(normalized)
         IN  IF ~Truthy(r.date)
             THEN g2_final_filter(rest, start, end, Append(filtered, r))
             ELSE IF p.ok /\ within_range_raises(p, start, end) THEN Raised
             ELSE IF p.ok /\ within_range(p, start, end)
             THEN g2_final_filter(rest, start, end, Append(filtered, r))
             ELSE IF ~p.ok
             THEN g2_final_filter(rest, start, end, Append(filtered, r))
             ELSE g2_final_filter(rest, start, end, filtered)

\* scrape_g2 after the collection (lines 190-232)
scrape_g2_filter(all_reviews, start, end) ==
    LET first == g2_normalize(all_reviews, start, end, <<>>)
    IN  IF first.raised THEN Raised
        ELSE g2_final_filter(first.out, start, end, <<>>)

\* scrape_capterra and scrape_trustradius after the collection: the same
\* loop with the adapter's own source tag (lines 258-276, 287-303)
RECURSIVE normalize_and_filter(_, _, _, _, _)
normalize_and_filter(all_reviews, start, end, src, normalized) ==
    IF all_reviews = <<>> THEN Returned(normalized)
    ELSE LET r == Head(all_reviews)
             dt == parse_date_safe(OrEmpty(r.date))
             rest == Tail(all_reviews)
         IN  IF dt.ok /\ within_range_raises(dt, start, end) THEN Raised
             ELSE IF ~dt.ok \/ within_range(dt, start, end)
             THEN normalize_and_filter(rest, start, end, src,
                                       Append(normalized, Copy(r, dt, src)))
             ELSE normalize_and_filter(rest, start, end, src, normalized)

scrape_capterra_filter(all_reviews, start, end) ==
    normalize_and_filter(all_reviews, start, end, "Capterra", <<>>)

scrape_trustradius_filter(all_reviews, start, end) ==
    normalize_and_filter(all_reviews, start, end, "TrustRadius", <<>>)

----------------------------------------------------------------------------
\* URLs (a tuple stands for the f-string's concatenation)

company == "zoho-crm"

g2_url(slug) == <<"https://www.g2.com/products/", slug, "/reviews">>

trustradius_url(slug) == <<"https://www.trustradius.com/products/", slug, "/reviews">>

\* the candidates with the first and the last exchanged
UrlVariantsBareFirst(slug) ==
    << <<"https://www.capterra.com/p/", slug, "/">>,
       <<"https://www.capterra.com/search?q=", slug, "">>,
       <<"https://www.capterra.com/p/", slug, "/reviews/">> >>

\* scrape_capterra's candidates, in the order tried
url_variants(slug) ==
    << <<"https://www.capterra.com/p/", slug, "/reviews/">>,
       <<"https://www.capterra.com/search?q=", slug, "">>,
       <<"https://www.capterra.com/p/", slug, "/">> >>

----------------------------------------------------------------------------
\* The arguments of a run

\* (start_date, end_date) pairs: an unparseable start, an unparseable end,
\* start after end, and two valid ranges: whole days, and times of one day
DateArgs ==
    { <<Text("soon", 4), Ymd(3)>>,
      <<Ymd(1), EmptyStr>>,
      <<Ymd(3), Ymd(1)>>,
      <<Ymd(1), Ymd(3)>>,
      <<YmdHM(2, 720), YmdHM(2, 1080)>> }

SourceArgs == {"G2", "capterra", "Trust-Radius", "foo"}

\* str.lower() on the source names above
lower(s) ==
    CASE s = "G2" -> "g2"
      [] s = "Trust-Radius" -> "trust-radius"
      [] OTHER -> s

----------------------------------------------------------------------------
\* State

VARIABLES
    pc,            \* position of the run
    start_date,    \* run_scraper's arguments
    end_date,
    source,
    start,         \* the parsed range
    end,
    source_lower,
    playwright,    \* "none", "running", "stopped": the async with block
    browser,       \* "none", "open", "closed"
    context,       \* "none", "open", "closed"
    navLog,        \* the page.goto calls so far: [url, ok]
    collected,     \* scroll_and_collect's locals
    seen_keys,
    last_len,
    new_count,
    i,
    rounds,        \* history: extractions started
    dropped,       \* history: records of the last extraction not merged
    reviews,       \* the adapter's result
    saved,         \* the output file has been written
    raised,        \* the exception that left the async with body, "" if none
    error          \* the exception that ended the run, "" if none

argVars == <<start_date, end_date, source>>

rangeVars == <<start, end, source_lower>>

sessVars == <<playwright, browser, context>>

collVars == <<collected, seen_keys, last_len, new_count, i, rounds, dropped>>

outVars == <<reviews, saved>>

vars == <<pc, argVars, rangeVars, sessVars, navLog, collVars, outVars, error, raised>>

Init ==
    /\ pc = "validate"
    /\ \E d \in DateArgs : start_date = d[1] /\ end_date = d[2]
    /\ source \in SourceArgs
    /\ start = None /\ end = None /\ source_lower = ""
    /\ playwright = "none" /\ browser = "none" /\ context = "none"
    /\ navLog = <<>>
    /\ collected = <<>> /\ seen_keys = {} /\ last_len = 0 /\ new_count = 0
    /\ i = 0 /\ rounds = 0 /\ dropped = 0
    /\ reviews = <<>> /\ saved = FALSE
    /\ raised = ""
    /\ error = ""

\* An exception leaves the body of the async with block: it is pending
\* while the block's exit is awaited; the statements after the raise are
\* skipped.
RaiseInSession(e) ==
    /\ raised' = e
    /\ pc' = "exit_raised"
    /\ UNCHANGED <<playwright, browser, context, error>>

\* where an adapter goes after a successful goto: scroll_and_collect(page)
CollectEntry == IF MaxScrolls > 0 THEN "extract" ELSE "filter"

----------------------------------------------------------------------------
\* run_scraper

\* lines 310-316
Validate ==
    /\ pc = "validate"
    /\ LET s == parse_date_safe(start_date)
           e == parse_date_safe(end_date)
       IN  IF ~s.ok \/ ~e.ok
           THEN /\ error' = "ValueError: Invalid date(s)"
                /\ UNCHANGED raised
                /\ pc' = "failed"
                /\ UNCHANGED <<start, end>>
           ELSE IF s.aware # e.aware
           THEN /\ error' = "TypeError"
                /\ UNCHANGED raised
                /\ pc' = "failed"
                /\ start' = s /\ end' = e
           ELSE IF ~Leq(s, e)
           THEN /\ error' = "ValueError: Start date must be <= end date."
                /\ UNCHANGED raised
                /\ pc' = "failed"
                /\ start' = s /\ end' = e
           ELSE /\ pc' = "launch"
                /\ start' = s /\ end' = e
                /\ UNCHANGED <<error, raised>>
    /\ UNCHANGED <<argVars, source_lower, sessVars, navLog, collVars, outVars>>

\* line 318: async with async_playwright() as p; when the entry raises
\* the block is never entered and nothing is left to stop
EnterPlaywright ==
    /\ pc = "launch"
    /\ \/ /\ playwright' = "running"
          /\ pc' = "chromium_launch"
          /\ UNCHANGED <<error, raised>>
       \/ /\ error' = "playwright.Error"
          /\ UNCHANGED raised
          /\ pc' = "failed"
          /\ UNCHANGED playwright
    /\ UNCHANGED <<argVars, rangeVars, browser, context, navLog, collVars, outVars>>

\* line 319: browser = await p.chromium.launch(headless=True)
LaunchBrowser ==
    /\ pc = "chromium_launch"
    /\ \/ /\ browser' = "open"
          /\ pc' = "new_context"
          /\ UNCHANGED <<playwright, context, error, raised>>
       \/ RaiseInSession("playwright.Error")
    /\ UNCHANGED <<argVars, rangeVars, navLog, collVars, outVars>>

\* line 320: context = await browser.new_context()
NewContext ==
    /\ pc = "new_context"
    /\ \/ /\ context' = "open"
          /\ pc' = "new_page"
          /\ UNCHANGED <<playwright, browser, error, raised>>
       \/ RaiseInSession("playwright.Error")
    /\ UNCHANGED <<argVars, rangeVars, navLog, collVars, outVars>>

\* line 321: page = await context.new_page()
NewPage ==
    /\ pc = "new_page"
    /\ \/ /\ pc' = "dispatch"
          /\ UNCHANGED <<sessVars, error, raised>>
       \/ RaiseInSession("playwright.Error")
    /\ UNCHANGED <<argVars, rangeVars, navLog, collVars, outVars>>

\* lines 323-331
Dispatch ==
    /\ pc = "dispatch"
    /\ source_lower' = lower(source)
    /\ \/ /\ source_lower' = "g2"
          /\ pc' = "g2_goto"
          /\ UNCHANGED <<sessVars, error, raised>>
       \/ /\ source_lower' = "capterra"
          /\ pc' = "capterra_goto"
          /\ UNCHANGED <<sessVars, error, raised>>
       \/ /\ source_lower' \in {"trustradius", "trust radius", "trust-radius"}
          /\ pc' = "trustradius_goto"
          /\ UNCHANGED <<sessVars, error, raised>>
       \/ /\ source_lower' \notin {"g2", "capterra", "trustradius",
                                   "trust radius", "trust-radius"}
          /\ RaiseInSession("ValueError: Unsupported source")
    /\ UNCHANGED <<argVars, start, end, navLog, collVars, outVars>>

\* line 334: await context.close()
ContextClose ==
    /\ pc = "close"
    /\ \/ /\ context' = "closed"
          /\ pc' = "browser_close"
          /\ UNCHANGED <<playwright, browser, error, raised>>
       \/ RaiseInSession("playwright.Error")
    /\ UNCHANGED <<argVars, rangeVars, navLog, collVars, outVars>>

\* line 335: await browser.close()
BrowserClose ==
    /\ pc = "browser_close"
    /\ \/ /\ browser' = "closed"
          /\ pc' = "exit_playwright"
          /\ UNCHANGED <<playwright, context, error, raised>>
       \/ RaiseInSession("playwright.Error")
    /\ UNCHANGED <<argVars, rangeVars, navLog, collVars, outVars>>

\* the normal exit of the async with block (end of line 335); when the
\* exit itself raises, playwright may or may not have been stopped
ExitPlaywright ==
    /\ pc = "exit_playwright"
    /\ \/ /\ playwright' = "stopped"
          /\ pc' = "save"
          /\ UNCHANGED <<error, raised>>
       \/ /\ playwright' \in {"running", "stopped"}
          /\ error' = "playwright.Error"
          /\ UNCHANGED raised
          /\ pc' = "failed"
    /\ UNCHANGED <<argVars, rangeVars, browser, context, navLog, collVars, outVars>>

\* the exit of the async with block with the body's exception pending:
\* when the exit returns, that exception ends the run; when the exit itself
\* raises, its exception does (the pending one is only its __context__),
\* and playwright may or may not have been stopped
ExitPlaywrightRaised ==
    /\ pc = "exit_raised"
    /\ \/ /\ playwright' = "stopped"
          /\ error' = raised
       \/ /\ playwright' \in {"running", "stopped"}
          /\ error' = "playwright.Error"
    /\ pc' = "failed"
    /\ UNCHANGED <<argVars, rangeVars, browser, context, navLog, collVars, outVars, raised>>

\* lines 337-346
Save ==
    /\ pc = "save"
    /\ saved' = TRUE
    /\ pc' = "done"
    /\ UNCHANGED <<argVars, rangeVars, sessVars, navLog, collVars, reviews, error, raised>>

----------------------------------------------------------------------------
\* The adapters' navigation

\* scrape_g2, lines 181-186
G2Goto ==
    /\ pc = "g2_goto"
    /\ \/ /\ navLog' = Append(navLog, [url |-> g2_url(company), ok |-> TRUE])
          /\ pc' = CollectEntry
          /\ UNCHANGED <<sessVars, error, raised>>
       \/ /\ navLog' = Append(navLog, [url |-> g2_url(company), ok |-> FALSE])
          /\ RaiseInSession("RuntimeError: Could not open G2 page")
    /\ UNCHANGED <<argVars, rangeVars, collVars, outVars>>

\* scrape_capterra, lines 238-254: one pass of the for loop, and the test
\* after the loop when the last candidate has failed
CapterraGoto ==
    /\ pc = "capterra_goto"
    /\ LET k == Len(navLog) + 1
           u == url_variants(company)[k]
       IN  \/ /\ navLog' = Append(navLog, [url |-> u, ok |-> TRUE])
              /\ pc' = CollectEntry
              /\ UNCHANGED <<sessVars, error, raised>>
           \/ /\ k < Len(url_variants(company))
              /\ navLog' = Append(navLog, [url |-> u, ok |-> FALSE])
              /\ pc' = "capterra_goto"
              /\ UNCHANGED <<sessVars, error, raised>>
           \/ /\ k = Len(url_variants(company))
              /\ navLog' = Append(navLog, [url |-> u, ok |-> FALSE])
              /\ RaiseInSession("RuntimeError: Could not open Capterra page")
    /\ UNCHANGED <<argVars, rangeVars, collVars, outVars>>

\* scrape_trustradius, lines 279-284
TrustRadiusGoto ==
    /\ pc = "trustradius_goto"
    /\ \/ /\ navLog' = Append(navLog, [url |-> trustradius_url(company), ok |-> TRUE])
          /\ pc' = CollectEntry
          /\ UNCHANGED <<sessVars, error, raised>>
       \/ /\ navLog' = Append(navLog, [url |-> trustradius_url(company), ok |-> FALSE])
          /\ RaiseInSession("RuntimeError: Could not open TrustRadius page")
    /\ UNCHANGED <<argVars, rangeVars, collVars, outVars>>

----------------------------------------------------------------------------
\* scroll_and_collect, one action per call on the page

\* An exception leaves scroll_and_collect, the adapter and the async with
Escape(e) ==
    /\ RaiseInSession(e)
    /\ UNCHANGED <<argVars, rangeVars, navLog, collVars, outVars>>

Step(next) ==
    /\ pc' = next
    /\ UNCHANGED <<argVars, rangeVars, sessVars, navLog, collVars, outVars, error, raised>>

\* lines 146-153: extract_reviews_from_dom (which returns [] when the
\* evaluation raises or yields nothing) and the merge of what it found
Extract ==
    /\ pc = "extract"
    /\ \E found \in FoundLists :
          LET m == Merge([collected |-> collected, seen_keys |-> seen_keys,
                          new_count |-> 0], found)
          IN  /\ collected' = m.collected
              /\ seen_keys' = m.seen_keys
              /\ new_count' = m.new_count
              /\ dropped' = Len(found) - m.new_count
    /\ rounds' = rounds + 1
    /\ pc' = "query"
    /\ UNCHANGED <<argVars, rangeVars, sessVars, navLog, last_len, i, outVars, error, raised>>

\* line 157: page.query_selector
QuerySelector ==
    /\ pc = "query"
    /\ \/ Step("click")
       \/ Step("scroll")
       \/ Step("timeout_wait")
       \/ Escape("playwright.Error")

\* line 160: load_more.click(); any exception falls back to the scroll
Click ==
    /\ pc = "click"
    /\ \/ Step("click_wait")
       \/ Step("scroll")

\* line 161: the wait after the click, still inside the inner try: any
\* exception falls back to the scroll
ClickWait ==
    /\ pc = "click_wait"
    /\ \/ Step("check")
       \/ Step("scroll")

\* lines 164 and 168: page.evaluate("window.scrollBy(...)")
Scroll ==
    /\ pc = "scroll"
    /\ \/ Step("wait")
       \/ Step("timeout_wait")
       \/ Escape("playwright.Error")

\* lines 165 and 169: page.wait_for_timeout(wait_ms) after the scroll
Wait ==
    /\ pc = "wait"
    /\ \/ Step("check")
       \/ Step("timeout_wait")
       \/ Escape("playwright.Error")

\* lines 170-171: the wait in the TimeoutError handler
TimeoutWait ==
    /\ pc = "timeout_wait"
    /\ \/ Step("check")
       \/ Escape("playwright.TimeoutError")
       \/ Escape("playwright.Error")

\* lines 173-176 and the for statement's next iteration
LoopCheck ==
    /\ pc = "check"
    /\ IF no_progress(Len(collected), last_len, new_count)
       THEN /\ pc' = "filter"
            /\ UNCHANGED <<last_len, i>>
       ELSE /\ last_len' = Len(collected)
            /\ IF range_has_next(i, MaxScrolls)
               THEN i' = i + 1 /\ pc' = "extract"
               ELSE i' = i /\ pc' = "filter"
    /\ UNCHANGED <<argVars, rangeVars, sessVars, navLog, collected, seen_keys,
                   new_count, rounds, dropped, outVars, error, raised>>

----------------------------------------------------------------------------
\* The adapters' filters, applied to what scroll_and_collect returned

Filter(result) ==
    /\ pc = "filter"
    /\ IF result.raised
       THEN /\ RaiseInSession("TypeError")
            /\ UNCHANGED reviews
       ELSE /\ reviews' = result.out
            /\ pc' = "close"
            /\ UNCHANGED <<sessVars, error, raised>>
    /\ UNCHANGED <<argVars, rangeVars, navLog, collVars, saved>>

G2Filter ==
    /\ source_lower = "g2"
    /\ Filter(scrape_g2_filter(collected, start, end))

CapterraFilter ==
    /\ source_lower = "capterra"
    /\ Filter(scrape_capterra_filter(collected, start, end))

TrustRadiusFilter ==
    /\ source_lower \in {"trustradius", "trust radius", "trust-radius"}
    /\ Filter(scrape_trustradius_filter(collected, start, end))

----------------------------------------------------------------------------

Next ==
    \/ Validate
    \/ EnterPlaywright
    \/ LaunchBrowser
    \/ NewContext
    \/ NewPage
    \/ Dispatch
    \/ G2Goto
    \/ CapterraGoto
    \/ TrustRadiusGoto
    \/ Extract
    \/ QuerySelector
    \/ Click
    \/ ClickWait
    \/ Scroll
    \/ Wait
    \/ TimeoutWait
    \/ LoopCheck
    \/ G2Filter
    \/ CapterraFilter
    \/ TrustRadiusFilter
    \/ ContextClose
    \/ BrowserClose
    \/ ExitPlaywright
    \/ ExitPlaywrightRaised
    \/ Save

Spec == Init /\ [][Next]_vars

\* The event loop runs the single task of a run until it ends.
FairSpec == Spec /\ WF_vars(Next)

----------------------------------------------------------------------------
\* Properties

\* scroll_and_collect has returned to its adapter
Collected ==
    \/ pc \in {"filter", "close", "browser_close", "exit_playwright", "save", "done"}
    \/ raised = "TypeError"

\* the adapter's filter has returned its list
Filtered == pc \in {"close", "browser_close", "exit_playwright", "save", "done"}

Ended == pc \in {"done", "failed"}

\* C1: scroll_and_collect runs at most max_scrolls rounds, whatever the page
\* yields: the extractions started never exceed the cap, the loop index stays
\* below it, and under FairSpec (every call on the page returns or raises)
\* the run reaches its end.
C1_BoundedRounds ==
    /\ [](rounds <= MaxScrolls /\ i < MaxScrolls /\ rounds <= i + 1)
    /\ <>Ended

\* C1 witness: the page gave a new record in every round and the loop ended
\* at the cap.
C1_Witness ==
    /\ pc = "filter"
    /\ rounds = MaxScrolls
    /\ new_count > 0
    /\ Len(collected) >= MaxScrolls

\* C2: in every step the old value of collected is a prefix of the new one.
C2_CollectedGrows ==
    [][/\ Len(collected) <= Len(collected')
       /\ SubSeq(collected', 1, Len(collected)) = collected]_vars

\* C2 witness: a second round whose extraction returned nothing left the
\* records of the first round in place.
C2_Witness ==
    /\ pc = "query"
    /\ rounds = 2
    /\ new_count = 0 /\ dropped = 0
    /\ Len(collected) = 2

\* C3: the loop goes on to another round only after a round that merged a
\* new record, and returns before the cap only after a round that merged
\* none; so every round but the last merged one, and when no round yields a
\* new record the loop returns the empty list after round 1.
C3_StopsAtFirstIdleRound ==
    /\ (pc = "extract" /\ rounds > 0) => (new_count > 0 /\ Len(collected) >= rounds)
    /\ (Collected /\ rounds < MaxScrolls) => new_count = 0
    /\ (Collected /\ rounds > 0) => Len(collected) >= rounds - 1
    /\ (Collected /\ collected = <<>> /\ MaxScrolls > 0) => rounds = 1

\* C3 witness: the loop returned after its second round, the first round
\* with nothing new, below the cap.
C3_Witness ==
    /\ pc = "filter"
    /\ rounds = 2 /\ rounds < MaxScrolls
    /\ new_count = 0
    /\ Len(collected) >= 1

\* C3 witness of the scenario: nothing new in round 1, empty list returned.
C3_ScenarioReached == pc = "filter" /\ rounds = 1 /\ collected = <<>>

\* The source of an output record: the collected record it was copied from.
CopyOf(out, r) ==
    /\ out.title = r.title
    /\ out.description = r.description
    /\ out.rating = r.rating
    /\ out.reviewer = r.reviewer

InOutput(r) == \E k \in 1..Len(reviews) : CopyOf(reviews[k], r)

IsCapterraOrTrustRadius ==
    source_lower \in {"capterra", "trustradius", "trust radius", "trust-radius"}

\* C4 (as claimed): after the Capterra or TrustRadius filter, a collected
\* record whose raw date parses is in the output exactly when its date lies
\* between the start day and the end day, both included; a record whose raw
\* date does not parse is in the output.
C4_RangeFilterClaim ==
    (IsCapterraOrTrustRadius /\ Filtered) =>
        \A k \in 1..Len(collected) :
            LET r == collected[k]
                d == parse_date_safe(r.date)
            IN  IF d.ok
                THEN InOutput(r) <=> (start.day <= d.day /\ d.day <= end.day)
                ELSE InOutput(r)

\* C5 (as claimed): a run that launched the browser and ends normally, by
\* an adapter's navigation failure or by the unsupported-source error has
\* closed the context and the browser.
C5_SessionClosedClaim ==
    (/\ Ended
     /\ browser # "none"
     /\ raised \in {"", "ValueError: Unsupported source",
                   "RuntimeError: Could not open G2 page",
                   "RuntimeError: Could not open Capterra page",
                   "RuntimeError: Could not open TrustRadius page"})
    => (context = "closed" /\ browser = "closed")

InvalidInput ==
    \/ ~parse_date_safe(start_date).ok
    \/ ~parse_date_safe(end_date).ok
    \/ ~Leq(parse_date_safe(start_date), parse_date_safe(end_date))
    \/ lower(source) \notin {"g2", "capterra", "trustradius", "trust radius",
                            "trust-radius"}

\* C6 (as claimed): a run with invalid input launches no browser, attempts
\* no navigation, writes no file, and ends with an error.
C6_FailFastClaim ==
    InvalidInput =>
        /\ browser = "none"
        /\ navLog = <<>>
        /\ ~saved
        /\ pc # "done"

\* the positions inside scroll_and_collect
InCollector ==
    pc \in {"extract", "query", "click", "click_wait", "scroll", "wait",
            "timeout_wait", "check"}

\* C7 (as claimed): no step taken inside scroll_and_collect raises out of it:
\* whatever a call on the page does there, the function goes on or returns
\* what it has accumulated.
C7_NoEscapeClaim == [][InCollector => raised' = ""]_vars

\* C8: scrape_capterra tries its three URLs in order, each only after the
\* one before it failed, collects only after a navigation that succeeded,
\* and raises exactly when all three failed, without collecting; scrape_g2
\* and scrape_trustradius navigate once and raise when that fails.
C8_NavigationOrder ==
    LET n == Len(navLog)
        capterra == << <<"https://www.capterra.com/p/", company, "/reviews/">>,
                       <<"https://www.capterra.com/search?q=", company, "">>,
                       <<"https://www.capterra.com/p/", company, "/">> >>
        single == IF source_lower = "g2"
                  THEN <<"https://www.g2.com/products/", company, "/reviews">>
                  ELSE <<"https://www.trustradius.com/products/", company, "/reviews">>
        allFailed == \A k \in 1..n : ~navLog[k].ok
    IN  /\ source_lower = "" => n = 0
        /\ source_lower = "capterra" =>
              /\ n <= 3
              /\ \A k \in 1..n : navLog[k].url = capterra[k]
              /\ \A k \in 1..(n - 1) : ~navLog[k].ok
              /\ rounds > 0 => navLog[n].ok
              /\ (n > 0 /\ navLog[n].ok) => pc # "capterra_goto"
              /\ (raised = "RuntimeError: Could not open Capterra page")
                    <=> (n = 3 /\ allFailed)
              /\ (n = 3 /\ allFailed) => (pc \in {"exit_raised", "failed"} /\ rounds = 0)
        /\ source_lower \in {"g2", "trustradius", "trust radius", "trust-radius"} =>
              /\ n <= 1
              /\ \A k \in 1..n : navLog[k].url = single
              /\ (n = 1 /\ allFailed) =>
                    /\ pc \in {"exit_raised", "failed"} /\ rounds = 0
                    /\ raised \in {"RuntimeError: Could not open G2 page",
                                  "RuntimeError: Could not open TrustRadius page"}
              /\ rounds > 0 => (n = 1 /\ navLog[1].ok)

\* C8 witness: Capterra's first two URLs failed, the third opened and the
\* collection ran on it.
C8_Witness ==
    /\ source_lower = "capterra"
    /\ Len(navLog) = 3
    /\ ~navLog[1].ok /\ ~navLog[2].ok /\ navLog[3].ok
    /\ rounds > 0

\* The policy C9 states, applied to one record: its output form, or absent.
PolicyDate(r) ==
    OrElse(parse_date_safe(r.date), parse_date_safe(Take(r.description, 50)))

PolicyKeeps(r) ==
    LET d == PolicyDate(r)
    IN  ~d.ok \/ (Leq(start, d) /\ Leq(d, end))

PolicyForm(r) ==
    [title |-> r.title, description |-> r.description,
     date |-> IF PolicyDate(r).ok THEN Ymd(PolicyDate(r).day) ELSE r.date,
     rating |-> r.rating, reviewer |-> r.reviewer, source |-> "G2"]

RECURSIVE PolicyList(_)
PolicyList(rs) ==
    IF rs = <<>> THEN <<>>
    ELSE IF PolicyKeeps(Head(rs))
         THEN <<PolicyForm(Head(rs))>> \o PolicyList(Tail(rs))
         ELSE PolicyList(Tail(rs))

\* C9 (as claimed): scrape_g2's output is the list of the collected records
\* the single policy keeps, in their normalised form, and the second pass
\* returns what the first pass built.
C9_SinglePolicyClaim ==
    (source_lower = "g2" /\ Filtered) =>
        /\ reviews = PolicyList(collected)
        /\ reviews = g2_normalize(collected, start, end, <<>>).out

\* C10: no two records of the accumulated list have the same key
\* title + "|" + description[:120], and seen_keys holds exactly their keys.
C10_NoDuplicateKeys ==
    /\ \A a, b \in 1..Len(collected) :
          (/\ collected[a].title = collected[b].title
           /\ Take(collected[a].description, 120) = Take(collected[b].description, 120))
          => a = b
    /\ seen_keys = { <<collected[k].title, "|", Take(collected[k].description, 120)>> :
                     k \in 1..Len(collected) }

\* C10 witness: a round after the first extracted only records whose key was
\* already in the list, and they were dropped.
C10_Witness ==
    /\ pc = "query"
    /\ rounds >= 2
    /\ dropped > 0 /\ new_count = 0
    /\ Len(collected) >= 2

====
